---- MODULE Spec2Model ----
(***************************************************************************)
(* Model of the ballistic calculator of src/main.rs: the five state cells  *)
(* of the BallisticCalculator component, its input handlers, the submit    *)
(* ("fire") handler, the 10 ms timer step, and the pure functions          *)
(* drag_force, update_velocity and update_position.                        *)
(*                                                                         *)
(* f64 values are modelled as decimal floating-point numbers <<m, e>>      *)
(* (value m * 10^e) with Digits significant digits, round-to-nearest-even, *)
(* overflow to infinity, underflow to zero, and NaN.  The exponent range   *)
(* is that of f64; only the precision is reduced.  The sign of zero is not *)
(* kept (0.0 and -0.0 compare equal in the source's only test, v != 0.0).  *)
(***************************************************************************)
EXTENDS Integers, Sequences, FiniteSets, TLC

---------------------------------------------------------------------------
(* f64 arithmetic                                                          *)

Digits == 4
EMax == 304
EMin == -327
ESpecial == 1000

RECURSIVE Pow10(_)
Pow10(k) == IF k <= 0 THEN 1 ELSE 10 * Pow10(k - 1)

MantMin == Pow10(Digits - 1)
MantLim == Pow10(Digits)

Zero == <<0, 0>>
PInf == <<1, ESpecial>>
NInf == <<-1, ESpecial>>
NaN  == <<0, ESpecial>>

IsNaN(x)    == x = NaN
IsInf(x)    == x = PInf \/ x = NInf
IsFinite(x) == x[2] # ESpecial
IsZero(x)   == x = Zero

Sgn(x) == IF x[1] > 0 THEN 1 ELSE IF x[1] < 0 THEN -1 ELSE 0
AbsInt(i) == IF i < 0 THEN -i ELSE i
SignedInf(s) == IF s < 0 THEN NInf ELSE PInf

RECURSIVE NumDigits(_)
NumDigits(a) == IF a < 10 THEN 1 ELSE 1 + NumDigits(a \div 10)

RECURSIVE ScaleUp(_, _)
ScaleUp(a, e) == IF a >= MantMin THEN <<a, e>> ELSE ScaleUp(a * 10, e - 1)

(* Round the exact non-negative value a * 10^e (plus a little, if sticky)  *)
(* to Digits digits, ties to even.                                         *)
RoundMag(a, e, sticky) ==
  IF a = 0 THEN <<0, 0>>
  ELSE IF a < MantLim THEN ScaleUp(a, e)
  ELSE LET d    == NumDigits(a) - Digits
           p    == Pow10(d)
           q    == a \div p
           r    == a % p
           up   == (2 * r > p) \/ (2 * r = p /\ (sticky \/ q % 2 = 1))
           q1   == IF up THEN q + 1 ELSE q
       IN  IF q1 = MantLim THEN <<MantMin, e + d + 1>> ELSE <<q1, e + d>>

(* Apply the sign and the exponent range: overflow gives an infinity,      *)
(* underflow gives zero.                                                   *)
Pack(s, a, e, sticky) ==
  LET r == RoundMag(a, e, sticky)
  IN  IF r[1] = 0 THEN Zero
      ELSE IF r[2] > EMax THEN SignedInf(s)
      ELSE IF r[2] < EMin THEN Zero
      ELSE <<s * r[1], r[2]>>

FNeg(x) == IF IsNaN(x) THEN NaN ELSE <<-x[1], x[2]>>
FAbs(x) == IF IsNaN(x) THEN NaN ELSE <<AbsInt(x[1]), x[2]>>

(* x + y for finite non-zero x, y with x[2] >= y[2] *)
AddAligned(x, y) ==
  LET d == x[2] - y[2]
  IN  IF d > Digits + 1 THEN x
      ELSE LET sum == x[1] * Pow10(d) + y[1]
           IN  Pack(IF sum < 0 THEN -1 ELSE 1, AbsInt(sum), y[2], FALSE)

FAdd(x, y) ==
  IF IsNaN(x) \/ IsNaN(y) THEN NaN
  ELSE IF IsInf(x) THEN (IF IsInf(y) /\ x # y THEN NaN ELSE x)
  ELSE IF IsInf(y) THEN y
  ELSE IF IsZero(x) THEN y
  ELSE IF IsZero(y) THEN x
  ELSE IF x[2] >= y[2] THEN AddAligned(x, y) ELSE AddAligned(y, x)

FSub(x, y) == FAdd(x, FNeg(y))

FMul(x, y) ==
  IF IsNaN(x) \/ IsNaN(y) THEN NaN
  ELSE IF IsInf(x) \/ IsInf(y)
       THEN (IF IsZero(x) \/ IsZero(y) THEN NaN ELSE SignedInf(Sgn(x) * Sgn(y)))
  ELSE IF IsZero(x) \/ IsZero(y) THEN Zero
  ELSE Pack(Sgn(x) * Sgn(y), AbsInt(x[1]) * AbsInt(y[1]), x[2] + y[2], FALSE)

FDiv(x, y) ==
  IF IsNaN(x) \/ IsNaN(y) THEN NaN
  ELSE IF IsInf(x) THEN (IF IsInf(y) THEN NaN
                         ELSE SignedInf(Sgn(x) * (IF Sgn(y) < 0 THEN -1 ELSE 1)))
  ELSE IF IsInf(y) THEN Zero
  ELSE IF IsZero(y) THEN (IF IsZero(x) THEN NaN ELSE SignedInf(Sgn(x)))
  ELSE IF IsZero(x) THEN Zero
  ELSE LET n == AbsInt(x[1]) * Pow10(Digits + 1)
           d == AbsInt(y[1])
       IN  Pack(Sgn(x) * Sgn(y), n \div d, x[2] - y[2] - (Digits + 1), n % d # 0)

(* x.powi(2) *)
Powi2(x) == FMul(x, x)

(* largest r in lo..hi with r * r <= n *)
RECURSIVE ISqrt(_, _, _)
ISqrt(n, lo, hi) ==
  IF lo >= hi THEN lo
  ELSE LET mid == (lo + hi + 1) \div 2
       IN  IF mid * mid <= n THEN ISqrt(n, mid, hi) ELSE ISqrt(n, lo, mid - 1)

FSqrt(x) ==
  IF IsNaN(x) \/ Sgn(x) < 0 THEN NaN
  ELSE IF IsInf(x) THEN PInf
  ELSE IF IsZero(x) THEN Zero
  ELSE LET odd == x[2] % 2 # 0
           a   == IF odd THEN x[1] * 10 ELSE x[1]
           e   == IF odd THEN x[2] - 1 ELSE x[2]
           n   == a * Pow10(Digits)
           r   == ISqrt(n, 0, 4 * MantLim)
           rem == n - r * r
       IN  IF r < MantLim
           THEN Pack(1, IF rem > r THEN r + 1 ELSE r, (e - Digits) \div 2, FALSE)
           ELSE Pack(1, r, (e - Digits) \div 2, rem # 0)

(* comparisons of f64: every comparison with NaN is false *)
FEq(x, y) == ~IsNaN(x) /\ ~IsNaN(y) /\ x = y
FLt(x, y) ==
  /\ ~IsNaN(x) /\ ~IsNaN(y)
  /\ IF Sgn(x) # Sgn(y) THEN Sgn(x) < Sgn(y)
     ELSE IF Sgn(x) = 0 THEN FALSE
     ELSE IF Sgn(x) > 0
          THEN (x[2] < y[2]) \/ (x[2] = y[2] /\ x[1] < y[1])
          ELSE (x[2] > y[2]) \/ (x[2] = y[2] /\ x[1] < y[1])
FLe(x, y) == FLt(x, y) \/ FEq(x, y)

(* the f64 nearest to the integer i * 10^e *)
Lit(i, e) == Pack(IF i < 0 THEN -1 ELSE 1, AbsInt(i), e, FALSE)


One     == Lit(1, 0)
Epsilon == Lit(1, 1 - Digits)

(* f64::cos and f64::sin, by their Taylor series evaluated in f64          *)
(* arithmetic (Horner form in x^2, six terms): accurate to the working     *)
(* precision for |x| <= 2, which covers elevations of 0 to 90 degrees.     *)
Horner(y, d1, d2, d3, d4, d5) ==
  LET t5 == FSub(One, FDiv(y, Lit(d5, 0)))
      t4 == FSub(One, FMul(FDiv(y, Lit(d4, 0)), t5))
      t3 == FSub(One, FMul(FDiv(y, Lit(d3, 0)), t4))
      t2 == FSub(One, FMul(FDiv(y, Lit(d2, 0)), t3))
  IN  FSub(One, FMul(FDiv(y, Lit(d1, 0)), t2))

FCos(x) == IF ~IsFinite(x) THEN NaN ELSE Horner(Powi2(x), 2, 12, 30, 56, 90)
FSin(x) == IF ~IsFinite(x) THEN NaN ELSE FMul(x, Horner(Powi2(x), 6, 20, 42, 72, 110))

(* std::f64::consts::PI *)
PI == Lit(3141593, -6)

---------------------------------------------------------------------------
(* str::parse::<f64>() on the text of an input field.  A text is a         *)
(* sequence of characters.  Accepted: an optional sign, then digits with   *)
(* at most one '.', at least one digit.  (Exponents and the words inf and  *)
(* nan, which parse also accepts, use characters outside DigitChars and    *)
(* are not among the texts of this model.)                                 *)

DigitChars == <<"0", "1", "2", "3", "4", "5", "6", "7", "8", "9">>
IsDigit(c) == \E i \in 1..10 : DigitChars[i] = c
DigitVal(c) == (CHOOSE i \in 1..10 : DigitChars[i] = c) - 1

RECURSIVE DigitsValue(_, _)
DigitsValue(t, acc) ==
  IF t = <<>> THEN acc
  ELSE IF Head(t) = "." THEN DigitsValue(Tail(t), acc)
  ELSE DigitsValue(Tail(t), 10 * acc + DigitVal(Head(t)))

Parse(text) ==
  LET signed == text # <<>> /\ Head(text) \in {"+", "-"}
      s      == IF signed /\ Head(text) = "-" THEN -1 ELSE 1
      body   == IF signed THEN Tail(text) ELSE text
      dots   == {i \in 1..Len(body) : body[i] = "."}
      wellFormed ==
        /\ \A i \in 1..Len(body) : body[i] = "." \/ IsDigit(body[i])
        /\ Cardinality(dots) <= 1
        /\ \E i \in 1..Len(body) : IsDigit(body[i])
      frac   == IF dots = {} THEN 0 ELSE Len(body) - (CHOOSE i \in dots : TRUE)
  IN  IF wellFormed
      THEN [ok |-> TRUE, value |-> Pack(s, DigitsValue(body, 0), -frac, FALSE)]
      ELSE [ok |-> FALSE, value |-> NaN]

---------------------------------------------------------------------------
(* The pure functions of src/main.rs                                       *)

Vector2(x, y) == [x |-> x, y |-> y]
Projectile(position, velocity) == [position |-> position, velocity |-> velocity]

air_density == Lit(1225, -3)
drag_coefficient(cal, bc) == FDiv(One, FMul(bc, Powi2(cal)))

(* drag_force with the sign of the leading factor lost *)
drag_force_positive(v, cal, bc) ==
  FMul(FMul(FMul(Lit(5, -1), drag_coefficient(cal, bc)), air_density), Powi2(v))

drag_force(v, cal, bc) ==
  FMul(FMul(FMul(Lit(-5, -1), drag_coefficient(cal, bc)), air_density), Powi2(v))

(* v of update_velocity: the speed as the code computes it *)
Speed(p) == FSqrt(FAdd(Powi2(p.velocity.x), Powi2(p.velocity.y)))

(* update_velocity whose v == 0.0 branch skips only the drag *)
update_velocity_gravity_at_rest(p, h, w, cal, bc) ==
  LET v    == Speed(p)
      dragx == IF FEq(v, Zero) THEN Zero
               ELSE FDiv(FMul(drag_force(v, cal, bc), p.velocity.x), v)
      dragy == IF FEq(v, Zero) THEN Zero
               ELSE FDiv(FMul(drag_force(v, cal, bc), p.velocity.y), v)
  IN  [p EXCEPT !.velocity =
         Vector2(FAdd(p.velocity.x, FMul(FAdd(w, dragx), h)),
                 FAdd(p.velocity.y, FMul(FAdd(Lit(-981, -2), dragy), h)))]

(* update_velocity without the v != 0.0 test *)
update_velocity_unguarded(p, h, w, cal, bc) ==
  LET v    == Speed(p)
      drag == drag_force(v, cal, bc)
  IN  [p EXCEPT !.velocity =
         Vector2(FAdd(p.velocity.x, FMul(FAdd(w, FDiv(FMul(drag, p.velocity.x), v)), h)),
                 FAdd(p.velocity.y,
                      FMul(FAdd(Lit(-981, -2), FDiv(FMul(drag, p.velocity.y), v)), h)))]

(* update_velocity with the gravity constant mistyped (-9.18) *)
update_velocity_gravity_typo(p, h, w, cal, bc) ==
  LET v == Speed(p)
  IN  IF ~FEq(v, Zero)
      THEN LET drag == drag_force(v, cal, bc)
               acceleration_x == FAdd(w, FDiv(FMul(drag, p.velocity.x), v))
               acceleration_y == FAdd(Lit(-918, -2), FDiv(FMul(drag, p.velocity.y), v))
           IN  [p EXCEPT !.velocity =
                  Vector2(FAdd(p.velocity.x, FMul(acceleration_x, h)),
                          FAdd(p.velocity.y, FMul(acceleration_y, h)))]
      ELSE p

update_velocity(p, h, w, cal, bc) ==
  LET v == Speed(p)
  IN  IF ~FEq(v, Zero)
      THEN LET drag == drag_force(v, cal, bc)
               acceleration_x == FAdd(w, FDiv(FMul(drag, p.velocity.x), v))
               acceleration_y == FAdd(Lit(-981, -2), FDiv(FMul(drag, p.velocity.y), v))
           IN  [p EXCEPT !.velocity =
                  Vector2(FAdd(p.velocity.x, FMul(acceleration_x, h)),
                          FAdd(p.velocity.y, FMul(acceleration_y, h)))]
      ELSE p

update_position(p, h) ==
  [p EXCEPT !.position = Vector2(FAdd(p.position.x, FMul(p.velocity.x, h)),
                                 FAdd(p.position.y, FMul(p.velocity.y, h)))]

---------------------------------------------------------------------------
(* The BallisticCalculator component                                       *)

VARIABLES
  wind,                   \* use_state cell, f64
  elevation,              \* use_state cell, f64 (degrees)
  caliber,                \* use_state cell, f64
  ballistic_coefficient,  \* use_state cell, f64
  projectile,             \* use_state cell, Projectile
  physics,                \* use_state cell: <<rigid bodies, colliders>> held
  rendered,               \* the values the state handles captured by the
                          \* current closures dereference to (last render)
  dt,                     \* the time step (0.01 in the timer closure)
  last,                   \* the handler or function that ran last, and its input
  n,                      \* number of update_velocity calls so far
  start,                  \* the projectile the run of steps started from
  drag                    \* result of the last direct drag_force call

vars == <<wind, elevation, caliber, ballistic_coefficient, projectile, physics,
          rendered, dt, last, n, start, drag>>

MaxTicks == 2
MaxFires == 2
MaxSteps == 3

ZeroVector == Vector2(Zero, Zero)
InitialProjectile == Projectile(ZeroVector, ZeroVector)
TimerDt == Lit(1, -2)
MuzzleSpeed == Lit(850, 0)
Event(h, arg) == [h |-> h, arg |-> arg]

(* texts typed into the four fields *)
WindTexts      == { <<>>, <<"2", ".", "5">> }
ElevationTexts == { <<"-">>, <<"4", "5">>, <<"9", "0">> }
CaliberTexts   == { <<".">>, <<"1">> }
CoefficientTexts == { <<"a">>, <<".", "4">> }

(* A timer closure that keeps the handles of the first render *)
Snapshot_stale(w, el, cal, bc, p, ph) ==
  [wind |-> w, elevation |-> el, caliber |-> cal, ballistic_coefficient |-> bc,
   projectile |-> Projectile(ZeroVector, ZeroVector), physics |-> ph]

(* What the handles captured at a render dereference to.  A set() on any   *)
(* cell re-runs the component function before the next event or timer      *)
(* callback is dispatched; the new closures capture the new handles.       *)
Snapshot(w, el, cal, bc, p, ph) ==
  [wind |-> w, elevation |-> el, caliber |-> cal, ballistic_coefficient |-> bc,
   projectile |-> p, physics |-> ph]

Render ==
  rendered' = Snapshot(wind', elevation', caliber', ballistic_coefficient',
                       projectile', physics')

(* cell.set(input.value().parse().unwrap_or_default()) *)
SetIfParsed_default(old, text) ==
  LET r == Parse(text) IN IF r.ok THEN r.value ELSE Zero

(* if let Ok(value) = input.value().parse() { cell.set(value) } *)
SetIfParsed(old, text) ==
  LET r == Parse(text) IN IF r.ok THEN r.value ELSE old

Init ==
  /\ wind = Zero
  /\ elevation = Zero
  /\ caliber = Lit(762, -5)
  /\ ballistic_coefficient = Lit(4, -1)
  /\ projectile = InitialProjectile
  /\ physics = <<0, 0>>
  /\ rendered = Snapshot(wind, elevation, caliber, ballistic_coefficient,
                         projectile, physics)
  /\ dt = TimerDt
  /\ last = Event("init", <<>>)
  /\ n = 0
  /\ start = InitialProjectile
  /\ drag = Zero

on_wind_input(text) ==
  /\ wind' = SetIfParsed(wind, text)
  /\ last' = Event("on_wind_input", text)
  /\ UNCHANGED <<elevation, caliber, ballistic_coefficient, projectile, physics,
                 dt, n, start, drag>>
  /\ Render

on_elevation_input(text) ==
  /\ elevation' = SetIfParsed(elevation, text)
  /\ last' = Event("on_elevation_input", text)
  /\ UNCHANGED <<wind, caliber, ballistic_coefficient, projectile, physics,
                 dt, n, start, drag>>
  /\ Render

on_caliber_input(text) ==
  /\ caliber' = SetIfParsed(caliber, text)
  /\ last' = Event("on_caliber_input", text)
  /\ UNCHANGED <<wind, elevation, ballistic_coefficient, projectile, physics,
                 dt, n, start, drag>>
  /\ Render

on_ballistic_coefficient_input(text) ==
  /\ ballistic_coefficient' = SetIfParsed(ballistic_coefficient, text)
  /\ last' = Event("on_ballistic_coefficient_input", text)
  /\ UNCHANGED <<wind, elevation, caliber, projectile, physics,
                 dt, n, start, drag>>
  /\ Render

(* new_velocity with sine and cosine exchanged *)
NewVelocity_swapped(el) ==
  LET theta == FDiv(FMul(el, PI), Lit(180, 0))
  IN  Vector2(FMul(MuzzleSpeed, FSin(theta)), FMul(MuzzleSpeed, FCos(theta)))

(* new_velocity of on_submit *)
NewVelocity(el) ==
  LET theta == FDiv(FMul(el, PI), Lit(180, 0))
  IN  Vector2(FMul(MuzzleSpeed, FCos(theta)), FMul(MuzzleSpeed, FSin(theta)))

(* let mut proj = *projectile.deref(); proj.velocity = new_velocity; *)
Fired(p, el) == [p EXCEPT !.velocity = NewVelocity(el)]

on_submit ==
  /\ physics[1] < MaxFires
  /\ projectile' = Fired(rendered.projectile, rendered.elevation)
  /\ physics' = <<rendered.physics[1] + 1, rendered.physics[2] + 2>>
  /\ last' = Event("on_submit", <<>>)
  /\ UNCHANGED <<wind, elevation, caliber, ballistic_coefficient,
                 dt, n, start, drag>>
  /\ Render

(* the timer step with update_position called first *)
TimerStep_position_first(p, w, cal, bc) ==
  update_velocity(update_position(p, TimerDt), TimerDt, w, cal, bc)

(* the body of the use_interval closure *)
TimerStep(p, w, cal, bc) ==
  update_position(update_velocity(p, TimerDt, w, cal, bc), TimerDt)

interval_tick ==
  /\ n < MaxTicks
  /\ projectile' = TimerStep(rendered.projectile, rendered.wind, rendered.caliber,
                             rendered.ballistic_coefficient)
  /\ last' = Event("interval_tick", <<>>)
  /\ n' = n + 1
  /\ UNCHANGED <<wind, elevation, caliber, ballistic_coefficient, physics,
                 dt, start, drag>>
  /\ Render

Next ==
  \/ \E text \in WindTexts : on_wind_input(text)
  \/ \E text \in ElevationTexts : on_elevation_input(text)
  \/ \E text \in CaliberTexts : on_caliber_input(text)
  \/ \E text \in CoefficientTexts : on_ballistic_coefficient_input(text)
  \/ on_submit
  \/ interval_tick

Spec == Init /\ [][Next]_vars

---------------------------------------------------------------------------
(* The pure functions on their own: a projectile and parameters drawn from *)
(* bounded sets, then stepped by update_velocity and update_position, and  *)
(* drag_force called on speeds of FnSpeeds.                                *)

FnVelocities ==
  { ZeroVector,
    Vector2(Lit(850, 0), Zero),
    Vector2(Zero, Lit(850, 0)),
    Vector2(Zero, Lit(981, -4)),
    Vector2(Lit(3, 0), Lit(4, 0)),
    Vector2(Lit(1, -200), Zero) }
FnWinds        == { Zero, Lit(25, -1) }
FnCalibers     == { Zero, Lit(1, -200), Lit(762, -5), One, Lit(1, 200) }
FnCoefficients == { Zero, Lit(4, -1), One }
FnDts          == { Lit(1, -2), Lit(5, -1) }
FnSpeeds       == { Zero, Lit(5, 0), Lit(850, 0), PInf }

InitFn ==
  /\ wind \in FnWinds
  /\ caliber \in FnCalibers
  /\ ballistic_coefficient \in FnCoefficients
  /\ dt \in FnDts
  /\ \E v \in FnVelocities : projectile = Projectile(ZeroVector, v)
  /\ start = projectile
  /\ elevation = Zero
  /\ physics = <<0, 0>>
  /\ rendered = Snapshot(wind, elevation, caliber, ballistic_coefficient,
                         projectile, physics)
  /\ last = Event("init", <<>>)
  /\ n = 0
  /\ drag = Zero

call_update_velocity ==
  /\ n < MaxSteps
  /\ projectile' = update_velocity(projectile, dt, wind, caliber, ballistic_coefficient)
  /\ n' = n + 1
  /\ last' = Event("update_velocity", <<>>)
  /\ UNCHANGED <<wind, elevation, caliber, ballistic_coefficient, physics,
                 rendered, dt, start, drag>>

call_update_position ==
  /\ last.h = "update_velocity"
  /\ projectile' = update_position(projectile, dt)
  /\ last' = Event("update_position", <<>>)
  /\ UNCHANGED <<wind, elevation, caliber, ballistic_coefficient, physics,
                 rendered, dt, n, start, drag>>

call_drag_force(v) ==
  /\ drag' = drag_force(v, caliber, ballistic_coefficient)
  /\ last' = Event("drag_force", v)
  /\ UNCHANGED <<wind, elevation, caliber, ballistic_coefficient, projectile,
                 physics, rendered, dt, n, start>>

NextFn ==
  \/ call_update_velocity
  \/ call_update_position
  \/ \E v \in FnSpeeds : call_drag_force(v)

SpecFn == InitFn /\ [][NextFn]_vars

---------------------------------------------------------------------------
(* Properties                                                              *)

(* |a - b| <= k * Epsilon * scale: equality up to k roundings at scale     *)
Close(a, b, k, scale) ==
  FLe(FAbs(FSub(a, b)), FMul(Lit(k, 0), FMul(Epsilon, scale)))

Gravity == Lit(981, -2)

(* C1: the projectile written by the fire handler (on_submit) has          *)
(* position (0, 0), whatever fires and timer steps came before.            *)
C1_FireResetsPosition ==
  last.h = "on_submit" => projectile.position = ZeroVector

(* C2: update_velocity on a projectile whose velocity is exactly (0, 0)    *)
(* leaves the velocity (0, 0), for every dt, wind, caliber and ballistic   *)
(* coefficient, zero caliber and zero coefficient included.                *)
C2_RestStaysAtRest ==
  [][(last'.h = "update_velocity" /\ projectile.velocity = ZeroVector)
       => projectile'.velocity = ZeroVector]_vars

C2_Witness ==
  /\ last.h = "update_velocity"
  /\ start.velocity = ZeroVector
  /\ wind # Zero
  /\ caliber = Zero
  /\ ballistic_coefficient = Zero
  /\ dt = Lit(5, -1)

(* C3: in a timer step the position moves by the velocity that the step's  *)
(* update_velocity produced, times dt: not by the velocity held before.    *)
C3_PositionUsesNewVelocity ==
  [][last'.h = "interval_tick" =>
       projectile'.position =
         Vector2(FAdd(projectile.position.x, FMul(projectile'.velocity.x, TimerDt)),
                 FAdd(projectile.position.y, FMul(projectile'.velocity.y, TimerDt)))]_vars

C3_Witness ==
  /\ last.h = "interval_tick"
  /\ n = 1
  /\ physics[1] = 1
  /\ elevation = Lit(45, 0)
  /\ IsFinite(projectile.velocity.x)
  /\ projectile.velocity # NewVelocity(elevation)
  /\ projectile.position # ZeroVector

(* C4: with wind = 0 and zero drag, after n update_velocity steps of size  *)
(* dt > 0 the vertical velocity is vy0 - 9.81 * n * dt (up to rounding),   *)
(* for every start, runs that reach vertical velocity 0 with horizontal    *)
(* velocity 0 included.                                                    *)
ExpectedVy(k) == FSub(start.velocity.y, FMul(FMul(Gravity, Lit(k, 0)), dt))
VyScale(k)    == FAdd(FAbs(start.velocity.y), FMul(FMul(Gravity, Lit(k, 0)), dt))
ZeroDrag ==
  /\ wind = Zero
  /\ drag_coefficient(caliber, ballistic_coefficient) = Zero
  /\ FLt(Zero, dt)

C4_GravityOnlyEveryRun ==
  ZeroDrag => Close(projectile.velocity.y, ExpectedVy(n), n + 1, VyScale(n))

(* C4, amended: the same, for the steps at which update_velocity computes  *)
(* a speed v that is not zero (a zero speed stays zero, so these are the   *)
(* runs whose speed was non-zero before each of the n steps).              *)
C4_GravityOnlyWhileMoving ==
  [][(last'.h = "update_velocity" /\ ZeroDrag /\ ~FEq(Speed(projectile), Zero))
       => Close(projectile'.velocity.y, ExpectedVy(n'), n' + 1, VyScale(n'))]_vars

C4_Witness ==
  /\ last.h = "update_velocity"
  /\ n = 3
  /\ ZeroDrag
  /\ start.velocity = Vector2(Lit(3, 0), Lit(4, 0))
  /\ projectile.velocity.y = ExpectedVy(3)
  /\ projectile.velocity.y # start.velocity.y

(* C5: the fire handler sets the velocity to 850 * (cos, sin) of the       *)
(* current elevation in degrees, whatever the velocity was: (850, 0) at    *)
(* elevation 0, (0, 850) up to rounding at elevation 90.                   *)
C5_FireSetsMuzzleVelocity ==
  last.h = "on_submit" =>
    /\ projectile.velocity = NewVelocity(elevation)
    /\ elevation = Zero => projectile.velocity = Vector2(MuzzleSpeed, Zero)
    /\ elevation = Lit(90, 0) =>
         /\ Close(projectile.velocity.x, Zero, 1, MuzzleSpeed)
         /\ Close(projectile.velocity.y, MuzzleSpeed, 1, MuzzleSpeed)
    /\ elevation = Lit(45, 0) =>
         LET diag == FMul(MuzzleSpeed, FDiv(FSqrt(Lit(2, 0)), Lit(2, 0)))
         IN  /\ Close(projectile.velocity.x, diag, 2, MuzzleSpeed)
             /\ Close(projectile.velocity.y, diag, 2, MuzzleSpeed)

C5_Witness ==
  /\ last.h = "on_submit"
  /\ physics[1] = 2
  /\ n >= 1
  /\ elevation = Lit(90, 0)
  /\ projectile.position # ZeroVector

Unparsable(event) == ~Parse(event.arg).ok

C7_InputTouchesOnlyItsParameter ==
  [][/\ last'.h = "on_wind_input" =>
          /\ Unparsable(last') => wind' = wind
          /\ UNCHANGED <<elevation, caliber, ballistic_coefficient, projectile>>
     /\ last'.h = "on_elevation_input" =>
          /\ Unparsable(last') => elevation' = elevation
          /\ UNCHANGED <<wind, caliber, ballistic_coefficient, projectile>>
     /\ last'.h = "on_caliber_input" =>
          /\ Unparsable(last') => caliber' = caliber
          /\ UNCHANGED <<wind, elevation, ballistic_coefficient, projectile>>
     /\ last'.h = "on_ballistic_coefficient_input" =>
          /\ Unparsable(last') => ballistic_coefficient' = ballistic_coefficient
          /\ UNCHANGED <<wind, elevation, caliber, projectile>>]_vars

C7_Witness ==
  /\ last.h = "on_wind_input"
  /\ Unparsable(last)
  /\ wind = Lit(25, -1)
  /\ projectile.velocity # ZeroVector

(* C8: fire and timer step never lose each other's write: each handler     *)
(* works on the projectile written by the most recent fire or tick.        *)
C8_NoLostWrite ==
  [][/\ rendered'.projectile = projectile'
     /\ last'.h = "interval_tick" =>
          projectile' = TimerStep(projectile, wind, caliber, ballistic_coefficient)
     /\ last'.h = "on_submit" =>
          /\ projectile'.position = projectile.position
          /\ projectile'.velocity = NewVelocity(elevation)]_vars

C8_Witness ==
  /\ last.h = "interval_tick"
  /\ physics[1] = 2
  /\ n = 2
  /\ IsFinite(projectile.position.x)
  /\ projectile.position # ZeroVector

(* C9: until the first fire the projectile stays at position (0, 0) with   *)
(* velocity (0, 0), through any timer ticks and parameter changes.         *)
C9_UnfiredStaysAtOrigin ==
  physics[1] = 0 => projectile = InitialProjectile

C9_Witness ==
  /\ physics[1] = 0
  /\ last.h = "interval_tick"
  /\ n >= 2
  /\ wind = Lit(25, -1)
  /\ caliber = One

(* C10: with wind = 0, caliber > 0, ballistic coefficient > 0 and          *)
(* dt = 0.01, an update_velocity step on a non-zero velocity (the one of   *)
(* a timer step, or a direct call) neither reverses the sign of the        *)
(* horizontal velocity nor increases its magnitude; the default caliber    *)
(* 0.00762 and coefficient 0.4 at launch speed 850 included.               *)
C10_DragOnlyOpposes ==
  [][(/\ last'.h \in {"interval_tick", "update_velocity"}
      /\ wind = Zero
      /\ FLt(Zero, caliber)
      /\ FLt(Zero, ballistic_coefficient)
      /\ dt = TimerDt
      /\ projectile.velocity # ZeroVector)
       => /\ FLe(FAbs(projectile'.velocity.x), FAbs(projectile.velocity.x))
          /\ FLe(Zero, FMul(projectile'.velocity.x, projectile.velocity.x))]_vars

====
